---- MODULE Spec2Model ----
(***************************************************************************)
(* Model of app.py: the guided-interview state machine (default_state,     *)
(* normalize_value, ui_for_question, save_answer_and_move, start_interview,*)
(* on_next_or_finish, on_back) and the overlay compositor (fill_pdf,       *)
(* create_overlay_pdf), together with the Gradio components the handlers   *)
(* read and write.                                                         *)
(*                                                                         *)
(* Python values are tagged records: None, a str, or a float.  Strings are *)
(* TLA+ strings; a float is an exact decimal [neg, mant, fd] standing for  *)
(* (-1)^neg * mant / 10^fd with no trailing zero in the fraction.          *)
(***************************************************************************)
EXTENDS Integers, Sequences, FiniteSets, TLC

\* ------------------------------------------------------------------ bounds
\* Number of widget edits a user makes in one run.
MaxEdits == 1
\* Longest string handed to normalize_value in NormSpec.
MaxStrLen == 4
\* Largest page count of the template PDF.
MaxPages == 2
\* Most answers that are non-empty in the answer sets tried in RenderSpec.
MaxFilled == 2

\* ------------------------------------------------------------ Python values
None == [t |-> "none"]
PyStr(s) == [t |-> "str", s |-> s]
PyFloat(neg, mant, fd) == [t |-> "float", neg |-> neg, mant |-> mant, fd |-> fd]

Max(a, b) == IF a >= b THEN a ELSE b
Min(a, b) == IF a <= b THEN a ELSE b

RECURSIVE Pow10(_)
Pow10(n) == IF n = 0 THEN 1 ELSE 10 * Pow10(n - 1)

DigitChars == "0123456789"
DigitStr(d) == SubSeq(DigitChars, d + 1, d + 1)
IsDigit(c) == \E d \in 0..9 : DigitStr(d) = c
DigitVal(c) == CHOOSE d \in 0..9 : DigitStr(d) = c
CharAt(s, i) == SubSeq(s, i, i)

\* str(n) of a non-negative int.
RECURSIVE NatStr(_)
NatStr(n) == IF n < 10 THEN DigitStr(n) ELSE NatStr(n \div 10) \o DigitStr(n % 10)

\* The value of a string of decimal digits ("" is 0).
RECURSIVE DigitsVal(_)
DigitsVal(s) ==
    IF Len(s) = 0 THEN 0
    ELSE 10 * DigitsVal(SubSeq(s, 1, Len(s) - 1)) + DigitVal(CharAt(s, Len(s)))

\* A decimal with the trailing zeros of its fraction removed.
RECURSIVE Canon(_, _, _)
Canon(neg, mant, fd) ==
    IF fd > 0 /\ mant % 10 = 0 THEN Canon(neg, mant \div 10, fd - 1)
    ELSE PyFloat(neg, mant, fd)

\* float(s) for a str s, app.py:118 and :140.  The grammar modelled is
\* [-] digits [. digits] | [-] . digits, which is Python's grammar restricted
\* to the characters "-", ".", 0-9 and letters that spell no float literal
\* (no "+", "_", "e", blanks, "inf", "nan"): the inputs of this model are drawn
\* from such characters.  ok = FALSE stands for ValueError.
ParseFloat(s) ==
    LET neg  == Len(s) > 0 /\ CharAt(s, 1) = "-"
        body == IF neg THEN SubSeq(s, 2, Len(s)) ELSE s
        dots == {i \in 1..Len(body) : CharAt(body, i) = "."}
        dot  == IF dots = {} THEN Len(body) + 1 ELSE CHOOSE i \in dots : TRUE
        ip   == SubSeq(body, 1, dot - 1)
        fp   == SubSeq(body, dot + 1, Len(body))
        ok   == /\ Cardinality(dots) <= 1
                /\ Len(ip) + Len(fp) >= 1
                /\ \A i \in 1..Len(ip) : IsDigit(CharAt(ip, i))
                /\ \A i \in 1..Len(fp) : IsDigit(CharAt(fp, i))
    IN  IF ok THEN [ok |-> TRUE, n |-> Canon(neg, DigitsVal(ip \o fp), Len(fp))]
        ELSE [ok |-> FALSE, n |-> None]

\* float(value), app.py:118: a float is itself, a str is parsed, None raises
\* TypeError.
ToFloat(value) ==
    IF value.t = "float" THEN [ok |-> TRUE, n |-> value]
    ELSE IF value.t = "str" THEN ParseFloat(value.s)
    ELSE [ok |-> FALSE, n |-> None]

\* n.is_integer(), app.py:119.
IsInteger(n) == n.fd = 0

\* str(int(n)), app.py:119: int() truncates toward zero and drops the sign
\* of a zero.
IntStr(n) ==
    LET i == n.mant \div Pow10(n.fd)
    IN  (IF n.neg /\ i > 0 THEN "-" ELSE "") \o NatStr(i)

\* f"{n:.2f}", app.py:119: round to the nearest hundredth, ties to even on the
\* exact value (the floats this model feeds it have no hundredth tie that
\* binary representation would move), sign kept even when the result is 0.00.
FormatFixed2(n) ==
    LET scaled == IF n.fd <= 2 THEN n.mant * Pow10(2 - n.fd) ELSE n.mant \div Pow10(n.fd - 2)
        rest   == IF n.fd <= 2 THEN 0 ELSE n.mant % Pow10(n.fd - 2)
        half   == IF n.fd <= 2 THEN 1 ELSE Pow10(n.fd - 2) \div 2
        up     == n.fd > 2 /\ (rest > half \/ (rest = half /\ scaled % 2 = 1))
        h      == IF up THEN scaled + 1 ELSE scaled
    IN  (IF n.neg THEN "-" ELSE "") \o NatStr(h \div 100) \o "."
            \o DigitStr((h \div 10) % 10) \o DigitStr(h % 10)

\* The fraction digits of a float, zero-padded to fd places.
RECURSIVE FracStr(_, _)
FracStr(m, fd) == IF fd = 0 THEN "" ELSE FracStr(m \div 10, fd - 1) \o DigitStr(m % 10)

\* str(value), app.py:121-122: a str is itself; a float prints as repr does
\* (shortest form, always with a fraction: 1500.0, 1500.5, -0.001).
PyStrOf(value) ==
    IF value.t = "str" THEN value.s
    ELSE IF value.t = "none" THEN "None"
    ELSE (IF value.neg THEN "-" ELSE "") \o NatStr(value.mant \div Pow10(value.fd)) \o "."
            \o (IF value.fd = 0 THEN "0" ELSE FracStr(value.mant % Pow10(value.fd), value.fd))

\* ------------------------------------------------------------ configuration
TEMPLATE_PDF_PATH == "Missouri - InFormaPauperis.pdf"

\* key -> (page_index, x, y), in dict order.
PDF_FIELD_POSITIONS == <<
    [key |-> "full_name",             page |-> 0, x |-> 120, y |-> 700],
    [key |-> "address",               page |-> 0, x |-> 120, y |-> 680],
    [key |-> "city_state_zip",        page |-> 0, x |-> 120, y |-> 660],
    [key |-> "phone",                 page |-> 0, x |-> 120, y |-> 640],
    [key |-> "email",                 page |-> 0, x |-> 360, y |-> 640],
    [key |-> "case_type",             page |-> 0, x |-> 120, y |-> 615],
    [key |-> "employment_status",     page |-> 0, x |-> 120, y |-> 590],
    [key |-> "monthly_income",        page |-> 0, x |-> 120, y |-> 570],
    [key |-> "cash_on_hand",          page |-> 0, x |-> 120, y |-> 550],
    [key |-> "bank_balance",          page |-> 0, x |-> 120, y |-> 530],
    [key |-> "monthly_expenses",      page |-> 0, x |-> 120, y |-> 510],
    [key |-> "dependents",            page |-> 0, x |-> 120, y |-> 490],
    [key |-> "government_assistance", page |-> 0, x |-> 120, y |-> 470],
    [key |-> "debts",                 page |-> 0, x |-> 120, y |-> 450],
    [key |-> "hardship_explanation",  page |-> 0, x |-> 120, y |-> 420],
    [key |-> "date_signed",           page |-> 0, x |-> 120, y |-> 160],
    [key |-> "signature_name",        page |-> 0, x |-> 360, y |-> 160] >>

\* Question(key, label, qtype, choices, placeholder); label and placeholder
\* are display text only and are left out.
Question(key, qtype, choices) == [key |-> key, qtype |-> qtype, choices |-> choices]

QUESTIONS == <<
    Question("full_name", "text", <<>>),
    Question("address", "text", <<>>),
    Question("city_state_zip", "text", <<>>),
    Question("phone", "text", <<>>),
    Question("email", "text", <<>>),
    Question("case_type", "radio",
             <<"Dissolution of Marriage (Divorce)", "Legal Separation",
               "Modification/Post-Decree", "Other Family Law">>),
    Question("employment_status", "radio",
             <<"Employed", "Unemployed", "Self-employed", "Disabled", "Retired">>),
    Question("monthly_income", "number", <<>>),
    Question("cash_on_hand", "number", <<>>),
    Question("bank_balance", "number", <<>>),
    Question("monthly_expenses", "number", <<>>),
    Question("dependents", "number", <<>>),
    Question("government_assistance", "multiline", <<>>),
    Question("debts", "multiline", <<>>),
    Question("hardship_explanation", "multiline", <<>>),
    Question("date_signed", "text", <<>>),
    Question("signature_name", "text", <<>>) >>

\* len(QUESTIONS)
N == Len(QUESTIONS)
Keys == {QUESTIONS[i].key : i \in 1..N}
\* QUESTIONS.index(q), 0-based
IndexOf(q) == CHOOSE i \in 0..(N - 1) : QUESTIONS[i + 1] = q

\* ------------------------------------------------------ the state machine
default_state == [step |-> 0, answers |-> [k \in Keys |-> ""]]

current_question(step) == QUESTIONS[Max(0, Min(step, N - 1)) + 1]

\* Variant of normalize_value: the None test is missing.
normalize_value_no_none(value, qtype) ==
    IF qtype = "number" THEN
        LET p == ToFloat(value)
        IN  IF p.ok THEN (IF IsInteger(p.n) THEN IntStr(p.n) ELSE FormatFixed2(p.n))
            ELSE PyStrOf(value)
    ELSE PyStrOf(value)

\* Variant of normalize_value: every parsed number is printed with two decimals.
normalize_value_always_2f(value, qtype) ==
    IF value = None THEN ""
    ELSE IF qtype = "number" THEN
        LET p == ToFloat(value)
        IN  IF p.ok THEN FormatFixed2(p.n) ELSE PyStrOf(value)
    ELSE PyStrOf(value)

normalize_value(value, qtype) ==
    IF value = None THEN ""
    ELSE IF qtype = "number" THEN
        LET p == ToFloat(value)
        IN  IF p.ok THEN (IF IsInteger(p.n) THEN IntStr(p.n) ELSE FormatFixed2(p.n))
            ELSE PyStrOf(value)
    ELSE PyStrOf(value)

\* gr.update(...): visible is always given; has_value tells whether value= is.
hidden == [visible |-> FALSE, has_value |-> FALSE, value |-> None, choices |-> <<>>]
shown(value, choices) == [visible |-> TRUE, has_value |-> TRUE, value |-> value, choices |-> choices]

\* num_value of ui_for_question, app.py:137-142.
num_value_of(value) ==
    IF value # "" THEN (LET p == ParseFloat(value) IN IF p.ok THEN p.n ELSE None)
    ELSE None

\* "Question i of N", app.py:149.
progress_of(q) == "Question " \o NatStr(IndexOf(q) + 1) \o " of " \o NatStr(N)

ui_for_question(q, value) ==
    [text_update      |-> IF q.qtype = "text" THEN shown(PyStr(value), <<>>) ELSE hidden,
     number_update    |-> IF q.qtype = "number" THEN shown(num_value_of(value), <<>>) ELSE hidden,
     radio_update     |-> IF q.qtype = "radio"
                          THEN shown(IF value # "" THEN PyStr(value) ELSE None, q.choices)
                          ELSE hidden,
     multiline_update |-> IF q.qtype = "multiline" THEN shown(PyStr(value), <<>>) ELSE hidden,
     progress         |-> progress_of(q)]

\* raw_val of save_answer_and_move, app.py:157-165.
raw_val_of(q, text_val, number_val, radio_val, multiline_val) ==
    IF q.qtype = "text" THEN text_val
    ELSE IF q.qtype = "number" THEN number_val
    ELSE IF q.qtype = "radio" THEN radio_val
    ELSE IF q.qtype = "multiline" THEN multiline_val
    ELSE PyStr("")

\* Variant of new_step_of: the floor of 0 is missing.
new_step_no_floor(step, delta) == Min(step + delta, N - 1)

\* new_step of save_answer_and_move, app.py:169.
new_step_of(step, delta) == Max(0, Min(step + delta, N - 1))

\* A dict store d[key] = value: the key is added when absent.
dict_set(d, key, value) ==
    [k \in (DOMAIN d) \cup {key} |-> IF k = key THEN value ELSE d[k]]

\* Variant of store_answer: the answer is filed under the question's type.
store_answer_by_qtype(answers, q, value) == dict_set(answers, q.qtype, value)

\* Variant of store_answer: the other answers are emptied.
store_answer_clear_rest(answers, q, value) ==
    [k \in (DOMAIN answers) \cup {q.key} |-> IF k = q.key THEN value ELSE ""]

\* state["answers"][q.key] = ..., app.py:167.
store_answer(answers, q, value) == dict_set(answers, q.key, value)

\* state["answers"].get(q2.key, ""), app.py:172.
existing_of(answers, key) == IF key \in DOMAIN answers THEN answers[key] ELSE ""

\* Variant of save_answer_and_move: the value just stored is shown again.
save_answer_and_move_echo(st, text_val, number_val, radio_val, multiline_val, delta) ==
    LET step     == st.step
        q        == current_question(step)
        raw_val  == raw_val_of(q, text_val, number_val, radio_val, multiline_val)
        answers  == store_answer(st.answers, q, normalize_value(raw_val, q.qtype))
        new_step == new_step_of(step, delta)
        q2       == current_question(new_step)
        ui       == ui_for_question(q2, existing_of(answers, q.key))
    IN  [state  |-> [step |-> new_step, answers |-> answers],
         ui     |-> ui,
         back_u |-> new_step > 0,
         next_u |-> IF new_step = N - 1 THEN "Finish & Generate PDF" ELSE "Next"]

save_answer_and_move(st, text_val, number_val, radio_val, multiline_val, delta) ==
    LET step     == st.step
        q        == current_question(step)
        raw_val  == raw_val_of(q, text_val, number_val, radio_val, multiline_val)
        answers  == store_answer(st.answers, q, normalize_value(raw_val, q.qtype))
        new_step == new_step_of(step, delta)
        q2       == current_question(new_step)
        ui       == ui_for_question(q2, existing_of(answers, q2.key))
    IN  [state  |-> [step |-> new_step, answers |-> answers],
         ui     |-> ui,
         back_u |-> new_step > 0,
         next_u |-> IF new_step = N - 1 THEN "Finish & Generate PDF" ELSE "Next"]

\* Variant of start_interview: the state passed in is kept.
start_interview_keep(st) ==
    [state  |-> st,
     ui     |-> ui_for_question(current_question(0), ""),
     back_u |-> FALSE,
     next_u |-> "Next"]

start_interview(st) ==
    [state  |-> default_state,
     ui     |-> ui_for_question(current_question(0), ""),
     back_u |-> FALSE,
     next_u |-> "Next"]

\* ---------------------------------------------------------- the compositor
\* Variant of draws_on: the test for an empty answer is missing.
RECURSIVE draws_on_blank_too(_, _, _)
draws_on_blank_too(answers, page_index, i) ==
    IF i > Len(PDF_FIELD_POSITIONS) THEN <<>>
    ELSE LET f     == PDF_FIELD_POSITIONS[i]
             value == existing_of(answers, f.key)
             rest  == draws_on_blank_too(answers, page_index, i + 1)
         IN  IF f.page # page_index THEN rest
             ELSE <<[x |-> f.x, y |-> f.y, text |-> value]>> \o rest

\* What create_overlay_pdf draws: one page per template page, each the
\* drawString calls made on it, in PDF_FIELD_POSITIONS order.
RECURSIVE draws_on(_, _, _)
draws_on(answers, page_index, i) ==
    IF i > Len(PDF_FIELD_POSITIONS) THEN <<>>
    ELSE LET f     == PDF_FIELD_POSITIONS[i]
             value == existing_of(answers, f.key)
             rest  == draws_on(answers, page_index, i + 1)
         IN  IF f.page # page_index THEN rest
             ELSE IF value # "" THEN <<[x |-> f.x, y |-> f.y, text |-> value]>> \o rest
             ELSE rest

\* Variant of create_overlay_pdf: showPage only runs for a page that got text.
create_overlay_pdf_skip_blank(answers, num_pages) ==
    SelectSeq([p \in 1..num_pages |-> draws_on(answers, p - 1, 1)], LAMBDA d : d # <<>>)

create_overlay_pdf(answers, num_pages) ==
    [p \in 1..num_pages |-> draws_on(answers, p - 1, 1)]

\* The template file as fill_pdf finds it: absent, or a PDF of some pages.
\* faults names the keys whose drawString call raises; none here.
Templates ==
    {[exists |-> FALSE, pages |-> 0, faults |-> {}]}
        \cup {[exists |-> TRUE, pages |-> n, faults |-> {}] : n \in 1..MaxPages}

\* Whether a drawString call of create_overlay_pdf raises: the calls made are
\* those for the fields of pages 0..num_pages-1 with a non-empty answer, and
\* nothing in the loop catches an exception (app.py:244-252).
draw_raises(answers, num_pages, faults) ==
    \E i \in 1..Len(PDF_FIELD_POSITIONS) :
        /\ PDF_FIELD_POSITIONS[i].page < num_pages
        /\ existing_of(answers, PDF_FIELD_POSITIONS[i].key) # ""
        /\ PDF_FIELD_POSITIONS[i].key \in faults

\* Variant of fill_pdf: the error message does not name the path.
fill_pdf_no_path(answers, template) ==
    IF ~template.exists THEN
        [ok |-> FALSE, error |-> "Template PDF not found.", output |-> <<>>, overlay |-> <<>>]
    ELSE IF draw_raises(answers, template.pages, template.faults) THEN
        [ok |-> FALSE, error |-> "drawString failed", output |-> <<>>, overlay |-> <<>>]
    ELSE LET num_pages == template.pages
             overlay   == create_overlay_pdf(answers, num_pages)
         IN  [ok |-> TRUE, error |-> "",
              output |-> [i \in 1..num_pages |->
                            [base |-> i - 1,
                             merged |-> IF i - 1 < Len(overlay) THEN overlay[i] ELSE <<>>]],
              overlay |-> overlay]

\* fill_pdf: raises FileNotFoundError when the template is absent, and lets an
\* exception of create_overlay_pdf through; otherwise the output has one page
\* per template page, page i the template's page i with overlay page i merged
\* on top when the overlay has one.  overlay is the file create_overlay_pdf
\* wrote.
fill_pdf(answers, template) ==
    IF ~template.exists THEN
        [ok |-> FALSE,
         error |-> "Template PDF not found at '" \o TEMPLATE_PDF_PATH \o "'. "
                   \o "Place the IFP form in the repository and update TEMPLATE_PDF_PATH if needed.",
         output |-> <<>>, overlay |-> <<>>]
    ELSE IF draw_raises(answers, template.pages, template.faults) THEN
        [ok |-> FALSE, error |-> "drawString failed", output |-> <<>>, overlay |-> <<>>]
    ELSE LET num_pages == template.pages
             overlay   == create_overlay_pdf(answers, num_pages)
         IN  [ok |-> TRUE, error |-> "",
              output |-> [i \in 1..num_pages |->
                            [base |-> i - 1,
                             merged |-> IF i - 1 < Len(overlay) THEN overlay[i] ELSE <<>>]],
              overlay |-> overlay]

\* Variant of at_last_of: off by one.
at_last_early(st) == st.step >= N - 2

\* at_last of on_next_or_finish, app.py:289.
at_last_of(st) == st.step = N - 1

\* Variant of next_delta: a forward move skips a question.
next_delta_skip(at_last) == IF at_last THEN 0 ELSE 2

\* delta passed by on_next_or_finish, app.py:299.
next_delta(at_last) == IF at_last THEN 0 ELSE 1

no_download == [visible |-> FALSE, value |-> <<>>]

\* No call of fill_pdf.
no_pdf == [ok |-> FALSE, error |-> "", output |-> <<>>, overlay |-> <<>>]

\* Variant of on_next_or_finish: the PDF is filled from the answers as they
\* were before this call's value was saved.
on_next_or_finish_stale(st, text_val, number_val, radio_val, multiline_val, template) ==
    LET at_last == at_last_of(st)
        r       == save_answer_and_move(st, text_val, number_val, radio_val, multiline_val,
                                        next_delta(at_last))
        pdf     == fill_pdf(st.answers, template)
    IN  [state    |-> r.state, ui |-> r.ui, back_u |-> r.back_u, next_u |-> r.next_u,
         finalize |-> at_last,
         fill_arg |-> st.answers,
         pdf      |-> IF at_last THEN pdf ELSE no_pdf,
         download |-> IF at_last /\ pdf.ok THEN [visible |-> TRUE, value |-> pdf.output]
                      ELSE no_download,
         status   |-> IF ~at_last THEN ""
                      ELSE IF pdf.ok
                      THEN "PDF generated successfully. Review and sign where required before filing."
                      ELSE "Could not generate PDF: " \o pdf.error]

\* Variant of on_next_or_finish: the interview is reset once the PDF is made.
on_next_or_finish_reset(st, text_val, number_val, radio_val, multiline_val, template) ==
    LET at_last == at_last_of(st)
        r       == save_answer_and_move(st, text_val, number_val, radio_val, multiline_val,
                                        next_delta(at_last))
        pdf     == fill_pdf(r.state.answers, template)
    IN  [state    |-> IF at_last /\ pdf.ok THEN default_state ELSE r.state,
         ui |-> r.ui, back_u |-> r.back_u, next_u |-> r.next_u,
         finalize |-> at_last,
         fill_arg |-> r.state.answers,
         pdf      |-> IF at_last THEN pdf ELSE no_pdf,
         download |-> IF at_last /\ pdf.ok THEN [visible |-> TRUE, value |-> pdf.output]
                      ELSE no_download,
         status   |-> IF ~at_last THEN ""
                      ELSE IF pdf.ok
                      THEN "PDF generated successfully. Review and sign where required before filing."
                      ELSE "Could not generate PDF: " \o pdf.error]

\* The handler's ten outputs; finalize, fill_arg and pdf record whether the
\* handler called fill_pdf, with which answers, and what the call gave.
on_next_or_finish(st, text_val, number_val, radio_val, multiline_val, template) ==
    LET at_last == at_last_of(st)
        r       == save_answer_and_move(st, text_val, number_val, radio_val, multiline_val,
                                        next_delta(at_last))
        pdf     == fill_pdf(r.state.answers, template)
    IN  [state    |-> r.state, ui |-> r.ui, back_u |-> r.back_u, next_u |-> r.next_u,
         finalize |-> at_last,
         fill_arg |-> r.state.answers,
         pdf      |-> IF at_last THEN pdf ELSE no_pdf,
         download |-> IF at_last /\ pdf.ok THEN [visible |-> TRUE, value |-> pdf.output]
                      ELSE no_download,
         status   |-> IF ~at_last THEN ""
                      ELSE IF pdf.ok
                      THEN "PDF generated successfully. Review and sign where required before filing."
                      ELSE "Could not generate PDF: " \o pdf.error]

on_back(st, text_val, number_val, radio_val, multiline_val) ==
    save_answer_and_move(st, text_val, number_val, radio_val, multiline_val, -1)

\* ------------------------------------------------------------------ state
VARIABLES
    state,            \* gr.State: [step, answers]
    text_input,       \* gr.Textbox
    number_input,     \* gr.Number
    radio_input,      \* gr.Radio
    multiline_input,  \* gr.Textbox(lines=5)
    progress,         \* gr.Markdown
    back_btn,         \* gr.Button: interactive
    next_btn,         \* gr.Button: value
    status_box,       \* gr.Markdown
    download_file,    \* gr.File: [visible, value]
    last,             \* the most recent handler call: its name, the step it
                      \* found, the four input values it was given, whether
                      \* it called fill_pdf and with which answers
    run,              \* Next presses since the last start with no Back in
                      \* between (saturating at N), -1 when there is no such run
    fills,            \* fill_pdf calls since the last start: 0, 1, or 2 for more
    edits,            \* widget edits made so far
    norm,             \* one call of normalize_value: [value, qtype, done, result]
    render,           \* one finalizing call: the state and value it was given,
                      \* the template it found, and what it returned
    multi             \* several sessions side by side: the dict objects, the
                      \* object each session's gr.State refers to, who acted

vars == <<state, text_input, number_input, radio_input, multiline_input, progress,
          back_btn, next_btn, status_box, download_file, last, run, fills, edits, norm,
          render, multi>>

session_vars == <<state, text_input, number_input, radio_input, multiline_input, progress,
                  back_btn, next_btn, status_box, download_file, last, run, fills, edits>>

\* A component as constructed with visible=False and no value: its value
\* reads as None until a handler or the user sets it.
new_component == [visible |-> FALSE, value |-> None, choices |-> <<>>]

\* A component after a gr.update payload.
apply_update(c, u) ==
    [visible |-> u.visible,
     value   |-> IF u.has_value THEN u.value ELSE c.value,
     choices |-> IF u.has_value THEN u.choices ELSE c.choices]

no_inputs == <<None, None, None, None>>
no_call == [op |-> "none", step |-> 0, inputs |-> no_inputs, finalize |-> FALSE, fill_arg |-> <<>>]
no_norm == [value |-> None, qtype |-> "text", done |-> FALSE, result |-> ""]
no_render == [done |-> FALSE]
no_multi == [on |-> FALSE]

\* What a user types or picks.
TextSamples == {"", "Jane Doe"}
MultilineSamples == {"", "SNAP, Medicaid"}
NumberSamples ==
    {None, PyFloat(FALSE, 1500, 0), PyFloat(FALSE, 15005, 1), PyFloat(FALSE, 999, 3)}

InitSession ==
    /\ state = default_state
    /\ text_input = new_component
    /\ number_input = new_component
    /\ radio_input = new_component
    /\ multiline_input = new_component
    /\ progress = "Question 1 of 17"
    /\ back_btn = FALSE
    /\ next_btn = "Next"
    /\ status_box = ""
    /\ download_file = no_download
    /\ last = no_call
    /\ run = -1
    /\ fills = 0
    /\ edits = 0

Init == InitSession /\ norm = no_norm /\ render = no_render /\ multi = no_multi

\* The four input components after a handler's ui payloads.
ShowUi(ui) ==
    /\ text_input' = apply_update(text_input, ui.text_update)
    /\ number_input' = apply_update(number_input, ui.number_update)
    /\ radio_input' = apply_update(radio_input, ui.radio_update)
    /\ multiline_input' = apply_update(multiline_input, ui.multiline_update)
    /\ progress' = ui.progress

\* demo.load(start_interview, ...)
Start ==
    \E r \in {start_interview(state)} :
        /\ state' = r.state
        /\ ShowUi(r.ui)
        /\ back_btn' = r.back_u
        /\ next_btn' = r.next_u
        /\ last' = [no_call EXCEPT !.op = "start", !.step = state.step]
        /\ run' = 0
        /\ fills' = 0
        /\ UNCHANGED <<status_box, download_file, edits, norm, render, multi>>

\* inputs=[state, text_input, number_input, radio_input, multiline_input]
Inputs == <<text_input.value, number_input.value, radio_input.value, multiline_input.value>>

\* next_btn.click(on_next_or_finish, ...)
Next_click ==
    \E template \in Templates :
        \E r \in {on_next_or_finish(state, text_input.value, number_input.value,
                                     radio_input.value, multiline_input.value, template)} :
            /\ state' = r.state
            /\ ShowUi(r.ui)
            /\ back_btn' = r.back_u
            /\ next_btn' = r.next_u
            /\ download_file' = r.download
            /\ status_box' = r.status
            /\ last' = [op |-> "next", step |-> state.step, inputs |-> Inputs,
                        finalize |-> r.finalize,
                        fill_arg |-> IF r.finalize THEN r.fill_arg ELSE <<>>]
            /\ run' = IF run < 0 THEN run ELSE Min(run + 1, N)
            /\ fills' = IF r.finalize THEN Min(fills + 1, 2) ELSE fills
            /\ UNCHANGED <<edits, norm, render, multi>>

\* back_btn.click(on_back, ...).  The handler is an endpoint of its own: the
\* button's interactive flag is a front-end affordance and does not guard it.
Back_click ==
    \E r \in {on_back(state, text_input.value, number_input.value,
                       radio_input.value, multiline_input.value)} :
        /\ state' = r.state
        /\ ShowUi(r.ui)
        /\ back_btn' = r.back_u
        /\ next_btn' = r.next_u
        /\ last' = [no_call EXCEPT !.op = "back", !.step = state.step, !.inputs = Inputs]
        /\ run' = -1
        /\ UNCHANGED <<status_box, download_file, fills, edits, norm, render, multi>>

\* The user changes the value of the widget on display.  A press that
\* follows no edit hands back the value the last handler displayed.
Edit ==
    /\ edits < MaxEdits
    /\ edits' = edits + 1
    /\ \/ /\ text_input.visible
          /\ \E s \in TextSamples : text_input' = [text_input EXCEPT !.value = PyStr(s)]
          /\ text_input' # text_input
          /\ UNCHANGED <<number_input, radio_input, multiline_input>>
       \/ /\ number_input.visible
          /\ \E v \in NumberSamples : number_input' = [number_input EXCEPT !.value = v]
          /\ number_input' # number_input
          /\ UNCHANGED <<text_input, radio_input, multiline_input>>
       \/ /\ radio_input.visible
          /\ \E i \in 1..Len(radio_input.choices) :
                radio_input' = [radio_input EXCEPT !.value = PyStr(radio_input.choices[i])]
          /\ radio_input' # radio_input
          /\ UNCHANGED <<text_input, number_input, multiline_input>>
       \/ /\ multiline_input.visible
          /\ \E s \in MultilineSamples :
                multiline_input' = [multiline_input EXCEPT !.value = PyStr(s)]
          /\ multiline_input' # multiline_input
          /\ UNCHANGED <<text_input, number_input, radio_input>>
    /\ UNCHANGED <<state, progress, back_btn, next_btn, status_box, download_file,
                   last, run, fills, norm, render, multi>>

Next == Start \/ Next_click \/ Back_click \/ Edit

Spec == Init /\ [][Next]_vars

\* --------------------------------------------- normalize_value on its own
\* The characters of the strings tried: digits, the sign, the point, a letter.
Chars == {"0", "1", "9", ".", "-", "a"}

RECURSIVE StringsUpTo(_)
StringsUpTo(n) ==
    IF n = 0 THEN {""}
    ELSE LET S == StringsUpTo(n - 1) IN S \cup {s \o c : s \in S, c \in Chars}

Examples == {"1500.0", "1500.5", "abc"}

NormInputs ==
    {None} \cup NumberSamples
        \cup {PyStr(s) : s \in StringsUpTo(MaxStrLen) \cup Examples}

\* Question.qtype values in use.
QTypes == {QUESTIONS[i].qtype : i \in 1..N}

InitNorm ==
    /\ InitSession
    /\ render = no_render
    /\ multi = no_multi
    /\ \E v \in NormInputs, t \in QTypes :
          norm = [value |-> v, qtype |-> t, done |-> FALSE, result |-> ""]

Normalize ==
    /\ ~norm.done
    /\ norm' = [norm EXCEPT !.done = TRUE, !.result = normalize_value(norm.value, norm.qtype)]
    /\ UNCHANGED <<session_vars, render, multi>>

NormSpec == InitNorm /\ [][Normalize]_vars

\* ------------------------------------------------- one finalizing call
\* The subsets of Keys of at most n elements.
RECURSIVE KeySetsUpTo(_)
KeySetsUpTo(n) ==
    IF n = 0 THEN {{}}
    ELSE LET P == KeySetsUpTo(n - 1) IN P \cup {S \cup {k} : S \in P, k \in Keys}

\* A stored answer of the question's type, as normalize_value leaves one.
SampleAnswer(q) ==
    IF q.qtype = "text" THEN "Jane Doe"
    ELSE IF q.qtype = "number" THEN "1500.50"
    ELSE IF q.qtype = "radio" THEN q.choices[1]
    ELSE "SNAP, Medicaid"

\* Answer sets a session can hold on reaching the last question.
RenderAnswers ==
    {[k \in Keys |-> IF k \in S THEN SampleAnswer(CHOOSE q \in {QUESTIONS[i] : i \in 1..N} : q.key = k)
                     ELSE ""] : S \in KeySetsUpTo(MaxFilled)}

\* What fill_pdf can find: the templates, and templates on which the
\* drawString call for one key raises.
RenderEnvs ==
    Templates \cup {[exists |-> TRUE, pages |-> n, faults |-> {k}] : n \in 1..MaxPages, k \in Keys}

InitRender ==
    /\ InitSession
    /\ norm = no_norm
    /\ multi = no_multi
    /\ \E a \in RenderAnswers, env \in RenderEnvs :
          \E v \in {PyStr(a["signature_name"])} \cup {PyStr(t) : t \in TextSamples} :
              render = [done |-> FALSE, st |-> [step |-> N - 1, answers |-> a],
                        text_val |-> v, env |-> env]

\* next_btn.click(on_next_or_finish, ...) on the last question.
Finish ==
    /\ ~render.done
    /\ render' = [done |-> TRUE, st |-> render.st, text_val |-> render.text_val,
                  env |-> render.env,
                  out |-> on_next_or_finish(render.st, render.text_val, None, None, None,
                                            render.env)]
    /\ UNCHANGED <<session_vars, norm, multi>>

RenderSpec == InitRender /\ [][Finish]_vars

\* ------------------------------------------------- sessions side by side
\* Two browser sessions of the one demo.
Sessions == {1, 2}

\* Variant of session_copy: every session is handed the object that
\* gr.State was constructed with.
session_copy_shared(t) == 0

\* The dict a session's gr.State refers to at first: Gradio deep-copies the
\* value given at app.py:328 for each session, so session t has an object of
\* its own, here object t.  Object 0 is the value gr.State was built with.
session_copy(t) == t

\* The four input values of a handler call: blank ones, and, while the budget
\* of typed values lasts, a value for the question's own widget.
BlankInputs == <<PyStr(""), None, None, PyStr("")>>
TypedInputs(q) ==
    IF q.qtype = "text" THEN {<<PyStr("Jane Doe"), None, None, PyStr("")>>}
    ELSE IF q.qtype = "number" THEN {<<PyStr(""), PyFloat(FALSE, 15005, 1), None, PyStr("")>>}
    ELSE IF q.qtype = "radio" THEN {<<PyStr(""), None, PyStr(q.choices[1]), PyStr("")>>}
    ELSE {<<PyStr(""), None, None, PyStr("SNAP, Medicaid")>>}

InitMulti ==
    /\ InitSession
    /\ norm = no_norm
    /\ render = no_render
    /\ multi = [on    |-> TRUE,
                heap  |-> [o \in {0} \cup Sessions |-> default_state],
                ref   |-> [t \in Sessions |-> session_copy(t)],
                actor |-> 0,
                typed |-> 0]

\* demo.load(start_interview, ...) in session t: default_state() builds a new
\* dict, which becomes the session's state.  The dict the session held is
\* dropped; the new one takes the session's own place in the heap.
MStart(t) ==
    /\ multi' = [multi EXCEPT !.heap[t] = start_interview(multi.heap[multi.ref[t]]).state,
                              !.ref[t] = t,
                              !.actor = t]
    /\ UNCHANGED <<session_vars, norm, render>>

\* The input values a handler call in session t may be given.
PressInputs(t) ==
    {BlankInputs} \cup
        (IF multi.typed < MaxEdits
         THEN TypedInputs(current_question(multi.heap[multi.ref[t]].step)) ELSE {})

\* save_answer_and_move updates the dict of session t in place and hands it
\* back: the object the session refers to takes the new contents.
Pressed(t, in, st) ==
    [multi EXCEPT !.heap[multi.ref[t]] = st,
                  !.actor = t,
                  !.typed = IF in = BlankInputs THEN @ ELSE @ + 1]

\* next_btn.click(on_next_or_finish, ...) in session t.
MNext(t) ==
    /\ \E template \in {e \in Templates : e.pages <= 1}, in \in PressInputs(t) :
          \E r \in {on_next_or_finish(multi.heap[multi.ref[t]], in[1], in[2], in[3], in[4],
                                      template)} :
              multi' = Pressed(t, in, r.state)
    /\ UNCHANGED <<session_vars, norm, render>>

\* back_btn.click(on_back, ...) in session t.
MBack(t) ==
    /\ \E in \in PressInputs(t) :
          \E r \in {on_back(multi.heap[multi.ref[t]], in[1], in[2], in[3], in[4])} :
              multi' = Pressed(t, in, r.state)
    /\ UNCHANGED <<session_vars, norm, render>>

MultiNext == \E t \in Sessions : MStart(t) \/ MNext(t) \/ MBack(t)

MultiSpec == InitMulti /\ [][MultiNext]_vars

\* ------------------------------------------------------------ properties
\* The string a text, radio or multiline input is expected to be stored as.
StrOrEmpty(v) == IF v = None THEN "" ELSE v.s

\* The input value, among the four a handler call was given, that belongs to
\* a question type.
InputFor(qtype, inputs) ==
    CASE qtype = "text" -> inputs[1]
      [] qtype = "number" -> inputs[2]
      [] qtype = "radio" -> inputs[3]
      [] qtype = "multiline" -> inputs[4]

LastKey == "signature_name"
FirstKey == "full_name"

\* C1: in every reachable state step is an integer in 0..N-1, whatever
\* sequence of start, Next/Finish and Back calls and input values led there.
StepInRange == state.step \in 0..(N - 1)

\* A Back call made at step 0, in a session that had pressed Finish at step
\* N-1 before.
StepInRangeWitness ==
    fills > 0 /\ last.op = "back" /\ last.step = 0 /\ state.step = 0

\* C2: the answers' key set is exactly the Question Schema's key set in every
\* reachable state.
KeysExact == DOMAIN state.answers = Keys

\* After a finalize and a later Back that stored a non-empty answer.
KeysExactWitness ==
    /\ fills > 0 /\ last.op = "back"
    /\ \E k \in Keys : state.answers[k] # ""

\* C3: the most recent handler call invoked fill_pdf exactly when it was a
\* Next call that found step = N-1; such a call leaves step at N-1.
FinalizeIff ==
    /\ last.finalize <=> (last.op = "next" /\ last.step = N - 1)
    /\ last.finalize => state.step = N - 1

\* A second finalizing call in a row (fill_pdf is invoked on each).
FinalizeIffWitness == last.finalize /\ fills = 2 /\ state.step = N - 1

\* C4: fill_pdf is invoked at most once between two starts, however often
\* Next is pressed at the last step.
FinalizeOnce == fills <= 1

\* C5: a Next call at step N-1 hands fill_pdf answers in which the last
\* question's entry is the stored form of the value given in that same call.
FinalValueIncluded ==
    (last.op = "next" /\ last.step = N - 1) =>
        /\ last.finalize
        /\ LastKey \in DOMAIN last.fill_arg
        /\ last.fill_arg[LastKey] = StrOrEmpty(last.inputs[1])

\* A finalizing call whose value was typed just before it.
FinalValueIncludedWitness ==
    /\ last.op = "next" /\ last.step = N - 1
    /\ last.inputs[1] = PyStr("Jane Doe")
    /\ state.answers[LastKey] = "Jane Doe"

\* C6: k Next calls after a start, with no Back in between, leave step = k
\* for k <= N-1; any further Next leaves step = N-1 and invokes fill_pdf.
RunStep ==
    /\ (run >= 0 /\ run <= N - 1) => state.step = run
    /\ run = N => (state.step = N - 1 /\ last.finalize)

\* N or more Next calls in a row after a start, one of them storing a value.
RunStepWitness == run = N /\ \E k \in Keys : state.answers[k] # ""

\* C7: a Back call at step 0 leaves step = 0 and stores the value it was
\* given as the first question's answer.
RetreatAtZero ==
    (last.op = "back" /\ last.step = 0) =>
        /\ state.step = 0
        /\ state.answers[FirstKey] = StrOrEmpty(last.inputs[1])

\* A Back call at step 0 that stored a typed name.
RetreatAtZeroWitness ==
    last.op = "back" /\ last.step = 0 /\ state.answers[FirstKey] = "Jane Doe"

\* C8: after start the step is 0 and every answer is the empty string,
\* whatever the state passed in.
StartResets ==
    last.op = "start" =>
        /\ state.step = 0
        /\ DOMAIN state.answers = Keys
        /\ \A k \in Keys : state.answers[k] = ""

\* A start on a session that stood past the first question and had produced
\* a PDF with text drawn on it, so held non-empty answers.
StartResetsWitness ==
    /\ last.op = "start" /\ last.step > 0
    /\ download_file.visible
    /\ \E i \in 1..Len(download_file.value) : download_file.value[i].merged # <<>>

\* The characters of s that are not the sign or the point.
RECURSIVE DigitsOf(_)
DigitsOf(s) ==
    IF Len(s) = 0 THEN ""
    ELSE LET c == CharAt(s, 1)
             rest == DigitsOf(SubSeq(s, 2, Len(s)))
         IN  IF c = "-" \/ c = "." THEN rest ELSE c \o rest

\* s is an optional sign followed by one or more digits, with no leading zero
\* unless it is "0".
IsWholeString(s) ==
    LET body == IF Len(s) > 0 /\ CharAt(s, 1) = "-" THEN SubSeq(s, 2, Len(s)) ELSE s
    IN  /\ Len(body) >= 1
        /\ \A i \in 1..Len(body) : IsDigit(CharAt(body, i))
        /\ (Len(body) > 1 => CharAt(body, 1) # "0")

\* s is an optional sign, one or more digits, a point and exactly two digits.
IsTwoDecimalString(s) ==
    LET body == IF Len(s) > 0 /\ CharAt(s, 1) = "-" THEN SubSeq(s, 2, Len(s)) ELSE s
    IN  /\ Len(body) >= 4
        /\ CharAt(body, Len(body) - 2) = "."
        /\ \A i \in 1..Len(body) : i # Len(body) - 2 => IsDigit(CharAt(body, i))

Abs(x) == IF x < 0 THEN -x ELSE x

\* C9: for a NUMBER question normalize_value stores, for an input that parses
\* as a whole number, its integer decimal string; for an input that parses
\* with a fractional part, the value rounded to the nearest hundredth and
\* written with exactly two decimals; and for a string that does not parse,
\* the string itself.  "1500.0" -> "1500", "1500.5" -> "1500.50", "abc" -> "abc".
NumberNormalized ==
    (norm.done /\ norm.qtype = "number" /\ norm.value # None) =>
        LET v == norm.value
            r == norm.result
            p == IF v.t = "float" THEN [ok |-> TRUE, n |-> v] ELSE ParseFloat(v.s)
            n == p.n
        IN  /\ (~p.ok) => r = v.s
            /\ (p.ok /\ n.fd = 0) =>
                  /\ IsWholeString(r)
                  /\ DigitsVal(DigitsOf(r)) = n.mant
                  /\ (CharAt(r, 1) = "-") <=> (n.neg /\ n.mant > 0)
            /\ (p.ok /\ n.fd > 0) =>
                  /\ IsTwoDecimalString(r)
                  /\ 2 * Abs(DigitsVal(DigitsOf(r)) * Pow10(n.fd) - n.mant * 100) <= Pow10(n.fd)
                  /\ (CharAt(r, 1) = "-") <=> n.neg
            /\ v = PyStr("1500.0") => r = "1500"
            /\ v = PyStr("1500.5") => r = "1500.50"
            /\ v = PyStr("abc") => r = "abc"

\* The three inputs the specification names have been normalized; this one
\* is the fractional case.
NumberNormalizedWitness ==
    /\ norm.done /\ norm.qtype = "number"
    /\ norm.value = PyStr("1500.5") /\ norm.result = "1500.50"

StartsWith(s, prefix) ==
    Len(s) >= Len(prefix) /\ SubSeq(s, 1, Len(prefix)) = prefix

\* Widget value d stands for the stored answer v of question q: the string
\* itself, no choice or no number for an empty answer, and for a number the
\* float that prints as v, whole or to two decimals.
Shows(q, v, d) ==
    IF q.qtype = "number"
    THEN IF v = "" THEN d = None
         ELSE /\ d.t = "float"
              /\ d.fd <= 2
              /\ (d.fd = 0 /\ IntStr(d) = v) \/ FormatFixed2(d) = v
    ELSE IF q.qtype = "radio" THEN d = (IF v = "" THEN None ELSE PyStr(v))
    ELSE d = PyStr(v)

\* The widget of a question type.
WidgetOf(qtype) ==
    CASE qtype = "text" -> text_input
      [] qtype = "number" -> number_input
      [] qtype = "radio" -> radio_input
      [] qtype = "multiline" -> multiline_input

\* The progress line of each step.
ProgressAt == [i \in 0..(N - 1) |-> progress_of(QUESTIONS[i + 1])]

\* The screen shows the question at the current step, and shows for it the
\* answer stored under its key.
PresentedCurrent ==
    LET q == current_question(state.step)
    IN  /\ \A t \in QTypes : WidgetOf(t).visible <=> (t = q.qtype)
        /\ Shows(q, state.answers[q.key], WidgetOf(q.qtype).value)
        /\ q.qtype = "radio" => radio_input.choices = q.choices
        /\ progress = ProgressAt[state.step]

\* A step made by a Next or a Back press.
Press == last'.op \in {"next", "back"} /\ edits' = edits

\* C11: after every Next and every Back press the question shown is the one
\* at the new step and the value shown is the answer stored for its key.
PresentsStored == [][Press => PresentedCurrent']_vars

\* A Next press at question 1 that submitted a name; question 2, of the same
\* type, is shown with its own stored (empty) answer.
PresentsStoredWitness ==
    /\ last.op = "next" /\ last.step = 0 /\ last.inputs[1] = PyStr("Jane Doe")
    /\ state.step = 1 /\ text_input.visible /\ text_input.value = PyStr("")

\* C18: a Next or a Back press changes no entry of answers other than the one
\* of the question at the step it found, and no key comes or goes.
OneEntryChanged ==
    [][Press =>
          /\ DOMAIN state'.answers = DOMAIN state.answers
          /\ \A k \in DOMAIN state.answers :
                k # current_question(state.step).key => state'.answers[k] = state.answers[k]]_vars

\* A Back press at question 2 that left the name stored for question 1.
OneEntryChangedWitness ==
    /\ last.op = "back" /\ last.step = 1 /\ state.step = 0
    /\ state.answers[FirstKey] = "Jane Doe"

\* The value ui_for_question puts in the widget of question q for answer v.
DisplayOf(q, v) ==
    LET ui == ui_for_question(q, v)
    IN  CASE q.qtype = "text" -> ui.text_update.value
          [] q.qtype = "number" -> ui.number_update.value
          [] q.qtype = "radio" -> ui.radio_update.value
          [] q.qtype = "multiline" -> ui.multiline_update.value

\* The widget of the current question holds what ui_for_question displays
\* for the stored answer.
Unedited ==
    LET q == current_question(state.step)
    IN  WidgetOf(q.qtype).value = DisplayOf(q, state.answers[q.key])

\* C19: a Next or a Back press made while the widget holds the value displayed
\* for the stored answer stores the same string again.
RevisitPreserves ==
    [][(Press /\ Unedited) =>
          LET k == current_question(state.step).key
          IN  state'.answers[k] = state.answers[k]]_vars

\* The text items of the document on offer are those of the current answers.
DocumentOf(answers, doc) ==
    \A p \in 1..Len(doc) : doc[p].merged = draws_on(answers, p - 1, 1)

\* C20: whenever a document is offered for download or the success status
\* is shown, the document was made from the current answers.
DownloadCurrent ==
    (download_file.visible \/ StartsWith(status_box, "PDF generated successfully."))
        => /\ download_file.value # <<>>
           /\ DocumentOf(state.answers, download_file.value)

\* The answers a finalizing call is expected to hold once it has saved its
\* value.
ExpectedAnswers ==
    [k \in Keys |-> IF k = LastKey THEN StrOrEmpty(render.text_val) ELSE render.st.answers[k]]

\* The text items expected on page p (1-based) of the overlay.
ExpectedDraws(answers, p) ==
    {[x |-> PDF_FIELD_POSITIONS[i].x, y |-> PDF_FIELD_POSITIONS[i].y,
      text |-> answers[PDF_FIELD_POSITIONS[i].key]] :
        i \in {j \in 1..Len(PDF_FIELD_POSITIONS) :
                 /\ PDF_FIELD_POSITIONS[j].page = p - 1
                 /\ answers[PDF_FIELD_POSITIONS[j].key] # ""}}

Range(seq) == {seq[i] : i \in 1..Len(seq)}

\* sub occurs in s.
Contains(s, sub) ==
    \E i \in 1..(Len(s) - Len(sub) + 1) : SubSeq(s, i, i + Len(sub) - 1) = sub

\* C12: a successful render of a template of P pages gives an overlay of
\* exactly P pages and an output document of exactly P pages, whatever the
\* answers and however many fields fall on each page.
PageCount ==
    (render.done /\ render.out.pdf.ok) =>
        /\ Len(render.out.pdf.overlay) = render.env.pages
        /\ Len(render.out.pdf.output) = render.env.pages
        /\ Len(render.out.download.value) = render.env.pages

\* A render of a two-page template whose second page has no field on it.
PageCountWitness ==
    /\ render.done /\ render.out.pdf.ok /\ render.env.pages >= 2
    /\ render.out.pdf.overlay[1] # <<>>
    /\ render.out.pdf.overlay[2] = <<>>

TemplateMissing ==
    (render.done /\ ~render.env.exists) =>
        /\ ~render.out.download.visible
        /\ render.out.download.value = <<>>
        /\ render.out.pdf.output = <<>> /\ render.out.pdf.overlay = <<>>
        /\ StartsWith(render.out.status, "Could not generate PDF: ")
        /\ Contains(render.out.status, TEMPLATE_PDF_PATH)
        /\ render.out.state.step = N - 1
        /\ DOMAIN render.out.state.answers = Keys
        /\ render.out.state.answers = ExpectedAnswers

\* A finalizing call that found no template and was given a typed name.
TemplateMissingWitness ==
    /\ render.done /\ ~render.env.exists
    /\ render.text_val = PyStr("Jane Doe")
    /\ render.out.state.answers[LastKey] = "Jane Doe"

\* C15: when the template is there, a drawString call that raises for one
\* field does not stop the render: a document is offered, generation is
\* reported as successful, and every other non-empty field is drawn.
DrawFaultSkipped ==
    (render.done /\ render.env.exists) =>
        /\ render.out.download.visible
        /\ StartsWith(render.out.status, "PDF generated successfully.")
        /\ \A p \in 1..render.env.pages :
              \A d \in ExpectedDraws(ExpectedAnswers, p) :
                  (\A i \in 1..Len(PDF_FIELD_POSITIONS) :
                      (PDF_FIELD_POSITIONS[i].x = d.x /\ PDF_FIELD_POSITIONS[i].y = d.y)
                          => PDF_FIELD_POSITIONS[i].key \notin render.env.faults)
                  => d \in Range(render.out.pdf.overlay[p])

\* C17: on a successful render the text items of overlay page p are exactly
\* the items (x, y, answer) of the registry fields of page p-1 whose answer is
\* non-empty, each drawn once, and the output carries the same items.
DrawnExactly ==
    (render.done /\ render.out.pdf.ok) =>
        \A p \in 1..render.env.pages :
            /\ Range(render.out.pdf.overlay[p]) = ExpectedDraws(ExpectedAnswers, p)
            /\ Len(render.out.pdf.overlay[p]) = Cardinality(ExpectedDraws(ExpectedAnswers, p))
            /\ render.out.pdf.output[p].merged = render.out.pdf.overlay[p]

\* A page with two items drawn while other answers are empty.
DrawnExactlyWitness ==
    /\ render.done /\ render.out.pdf.ok
    /\ Len(render.out.pdf.overlay[1]) = 2
    /\ \E k \in Keys : ExpectedAnswers[k] = ""

\* The state session t holds.
StateOf(m, t) == m.heap[m.ref[t]]

\* C16: a handler call made in one session leaves the step and the answers
\* of every other session as they were.
SessionsIsolated ==
    [][\A t \in Sessions : t # multi'.actor => StateOf(multi', t) = StateOf(multi, t)]_vars

\* Session 2 has just acted and holds a state that differs from the one
\* session 1 had built up before.
SessionsIsolatedWitness ==
    /\ multi.on /\ multi.actor = 2
    /\ StateOf(multi, 1).step = 1
    /\ StateOf(multi, 1).answers[FirstKey] = "Jane Doe"
    /\ StateOf(multi, 2).step = 2
    /\ StateOf(multi, 2).answers[FirstKey] = ""

====
